---- MODULE Spec2Model ----
(***************************************************************************)
(* Model of src/app.py, the Streamlit script of the football prediction    *)
(* tracker.  One script run (lines 10-353) is one action, Run; the         *)
(* spreadsheet it reads is the environment variable fuente, and the        *)
(* process-wide st.cache_data store is the variable cache.                 *)
(*                                                                         *)
(* A timestamp is [kind, d, h]: d is the day number counted from Monday    *)
(* 2024-01-29 (day 0; days 0..2 are the end of January, day 3 is Thursday  *)
(* 2024-02-01) and h the time of day (0 is midnight 00:00, anything above  *)
(* is later that day).                                                     *)
(* Quotients are kept as [tipo, num, den] instead of floats.               *)
(***************************************************************************)
EXTENDS Integers, Sequences, FiniteSets, TLC

VARIABLES
    fuente,           \* predictions_tracker.xlsx as it is on disk now
    cache,            \* st.cache_data store of cargar_datos: <<>> or <<result>>
    instantanea,      \* history: fuente as it was at the first load after the last clear
    estado,           \* "inicio" | "detenido" (st.stop) | "excepcion_fecha" (raised at
                      \* lines 52-53) | "excepcion" (raised later) | "completo"
    mensajes,         \* st.warning / st.error messages shown by the last run
    df,               \* the DataFrame the last run worked on (line 36)
    fecha_col,        \* TRUE when cargar_datos found a date column
    seleccion,        \* sidebar widget values of the last run
    df_fecha,         \* df_filtrado after the date filter (line 55 / 57)
    df_filtros,       \* df_filtrado after the team and league filters (line 90)
    df_filtrado,      \* df_filtrado after the void exclusion (line 100)
    df_validadas,     \* df_filtrado.dropna(profit) (line 109)
    kpi,              \* the metrics of lines 108-149
    resumen_mensual,  \* lines 164-172
    resumen_semanal   \* lines 197-201

vars == <<fuente, cache, instantanea, estado, mensajes, df, fecha_col, seleccion,
          df_fecha, df_filtros, df_filtrado, df_validadas, kpi,
          resumen_mensual, resumen_semanal>>

\* Largest number of rows of a spreadsheet.
MaxRows == 2

-----------------------------------------------------------------------------
(* Cell values *)

Ts(d, h) == [kind |-> "ts", d |-> d, h |-> h]

NaT == [kind |-> "NaT", d |-> 0, h |-> 0]

CeldaVacia == [kind |-> "vacia", d |-> 0, h |-> 0]

CeldaTexto == [kind |-> "texto", d |-> 0, h |-> 0]

Num(v) == [nan |-> FALSE, v |-> v]

NaN == [nan |-> TRUE, v |-> 0]

SinValor == "NaN"

Fila(f, l, v, lg, r, p, e) ==
    [fecha |-> f, local |-> l, visitante |-> v, liga |-> lg,
     resultado |-> r, profit |-> p, estado |-> e]

\* The rows a spreadsheet is made of.
Filas ==
    { Fila(Ts(0, 0),   "A", "B", "L1",     "Win",       Num(2),  "completed"),
      Fila(Ts(3, 0),   "B", "A", "L2",     "Loss",      Num(-1), "pending"),
      Fila(Ts(7, 0),   "A", "B", "L1",     "Pendiente", Num(1),  "completed"),
      Fila(Ts(7, 1),   "B", "B", "L2",     "Win",       Num(3),  "completed"),
      Fila(CeldaVacia, "A", "B", "L2",     "Win",       Num(1),  "completed"),
      Fila(CeldaTexto, "B", "A", "L1",     "Loss",      Num(-1), "completed"),
      Fila(Ts(0, 1),   "B", "A", SinValor, "Void",      Num(0),  "completed"),
      Fila(Ts(3, 0),   "A", "B", "L1",     "Win",       NaN,     "pending") }

\* The dates the two date inputs can be set to.
SelDias == {0, 7}

SeqsHasta(S, n) == UNION { [1..k -> S] : k \in 0..n }

Ilegible ==
    [ok |-> FALSE, tieneFecha |-> FALSE, tieneProfit |-> FALSE,
     tieneResultado |-> FALSE, filas |-> <<>>]

\* A spreadsheet: unreadable, or a sheet with local, visitante and liga
\* columns, optional fecha, profit and resultado columns, and its rows.
Fuentes ==
    {Ilegible} \cup
    [ok : {TRUE}, tieneFecha : BOOLEAN, tieneProfit : BOOLEAN,
     tieneResultado : BOOLEAN, filas : SeqsHasta(Filas, MaxRows)]

Rango(s) == { s[i] : i \in 1..Len(s) }

-----------------------------------------------------------------------------
(* cargar_datos *)

AvisoSinFecha == "No se encontro columna de fecha en el archivo"

AvisoCarga == "No se pudo cargar el archivo predictions_tracker.xlsx"

ErrorNoDatos == "No hay datos disponibles para mostrar"

\* pd.to_datetime on one cell: an empty cell becomes NaT.  A text cell makes
\* the whole call raise, see CargarDatos.
ToDatetime(c) == IF c.kind = "ts" THEN c ELSE NaT

ToDatetimeFalla(filas) == \E i \in 1..Len(filas) : filas[i].fecha.kind = "texto"

ConFechas(filas) ==
    [i \in 1..Len(filas) |-> [filas[i] EXCEPT !.fecha = ToDatetime(@)]]

\* Mutant: the except branch swallows the failure.
DataFrameVacioMudo ==
    [df |-> <<>>, fecha_col |-> FALSE, tieneProfit |-> FALSE,
     tieneResultado |-> FALSE, mensajes |-> <<>>]

DataFrameVacio ==
    [df |-> <<>>, fecha_col |-> FALSE, tieneProfit |-> FALSE,
     tieneResultado |-> FALSE, mensajes |-> <<AvisoCarga>>]

\* The body of cargar_datos: the frame, the date column found, and the
\* st.warning calls made inside, which st.cache_data stores and replays.
CargarDatos(s) ==
    IF ~s.ok THEN DataFrameVacio
    ELSE IF s.tieneFecha
    THEN IF ToDatetimeFalla(s.filas) THEN DataFrameVacio
         ELSE [df |-> ConFechas(s.filas), fecha_col |-> TRUE,
               tieneProfit |-> s.tieneProfit,
               tieneResultado |-> s.tieneResultado, mensajes |-> <<>>]
    ELSE [df |-> s.filas, fecha_col |-> FALSE,
          tieneProfit |-> s.tieneProfit,
          tieneResultado |-> s.tieneResultado, mensajes |-> <<AvisoSinFecha>>]

\* st.button + st.cache_data.clear (lines 10-11).
TrasBoton(c, pulsado) == IF pulsado THEN <<>> ELSE c

\* Mutant: an empty result is not reused.
CacheLookupSinVacios(c, s) ==
    IF c = <<>> \/ c[1].df = <<>> THEN CargarDatos(s) ELSE c[1]

\* @st.cache_data on a function without arguments: one entry, computed on a miss.
CacheLookup(c, s) == IF c = <<>> THEN CargarDatos(s) ELSE c[1]

-----------------------------------------------------------------------------
(* Filters, lines 51-100 *)

\* pd.to_datetime(date): midnight of that day.
FechaATimestamp(dia) == Ts(dia, 0)

TsLeq(a, b) == a.d < b.d \/ (a.d = b.d /\ a.h <= b.h)

\* Line 54.  A comparison with NaT is False.
FiltroFecha(d, sel) ==
    LET Test(r) == /\ r.fecha.kind = "ts"
                   /\ TsLeq(FechaATimestamp(sel.desde), r.fecha)
                   /\ TsLeq(r.fecha, FechaATimestamp(sel.hasta))
    IN  SelectSeq(d, Test)

\* Mutant: only the first team column is compared.
FiltroEquipoSoloLocal(d, sel) ==
    LET Test(r) == r.local = sel.equipo
    IN  IF sel.equipo # "Todos" THEN SelectSeq(d, Test) ELSE d

\* Lines 74-78.
FiltroEquipo(d, sel) ==
    LET Test(r) == r.local = sel.equipo \/ r.visitante = sel.equipo
    IN  IF sel.equipo # "Todos" THEN SelectSeq(d, Test) ELSE d

\* Lines 89-90.
FiltroLiga(d, sel) ==
    LET Test(r) == r.liga \in sel.ligas
    IN  IF sel.ligas # {} THEN SelectSeq(d, Test) ELSE d

Anulados == {"Anulado", "Void", "Cancelled"}

\* Line 100.
SinAnulados(d) ==
    LET Test(r) == r.resultado \notin Anulados
    IN  SelectSeq(d, Test)

\* Lines 65-67 and 82: the options of the two widgets come from df.
EquiposUnicos(d) ==
    ({ d[i].local : i \in 1..Len(d) } \cup { d[i].visitante : i \in 1..Len(d) })
        \ {SinValor}

LigasUnicas(d) == { d[i].liga : i \in 1..Len(d) } \ {SinValor}

\* Lines 52-53: the defaults of the two date inputs are min().date() and
\* max().date() of the date column, which are NaT when no row has a date.
FechaPorDefectoNaT(d) == \A i \in 1..Len(d) : d[i].fecha.kind = "NaT"

SeleccionInicial == [desde |-> 0, hasta |-> 0, equipo |-> "Todos", ligas |-> {}]

\* What the sidebar widgets can return in a run over the loaded frame d.
Selecciones(d, hayFecha) ==
    IF d = <<>> THEN {SeleccionInicial}
    ELSE [desde : IF hayFecha THEN SelDias ELSE {0},
          hasta : IF hayFecha THEN SelDias ELSE {0},
          equipo : {"Todos"} \cup EquiposUnicos(d),
          ligas : SUBSET LigasUnicas(d)]

-----------------------------------------------------------------------------
(* Metrics, lines 108-149 *)

\* The hit and miss markers of lines 116-117 (the last of each stands for
\* the check-mark and the cross emoji).
Aciertos == {"Acierto", "Win", "Green", "(check)"}

Fallos == {"Fallo", "Loss", "Red", "(cross)"}

Cociente(n, d) == [tipo |-> "num", num |-> n, den |-> d]

Cero == Cociente(0, 1)

Infinito == [tipo |-> "inf", num |-> 0, den |-> 0]

\* dropna(subset=[profit]), lines 109, 161 and 194.
DropnaProfit(d) ==
    LET Test(r) == ~r.profit.nan
    IN  SelectSeq(d, Test)

RECURSIVE SumaProfit(_)
SumaProfit(d) ==
    IF d = <<>> THEN 0 ELSE Head(d).profit.v + SumaProfit(Tail(d))

\* (column.isin(valores)).sum()
CuentaIsin(d, valores) ==
    LET Test(r) == r.resultado \in valores
    IN  Len(SelectSeq(d, Test))

Positivas(d) ==
    LET Test(r) == r.profit.v > 0
    IN  SelectSeq(d, Test)

Negativas(d) ==
    LET Test(r) == r.profit.v < 0
    IN  SelectSeq(d, Test)

\* Line 127.
ProfitFactor(ganancias, perdidas) ==
    IF perdidas # 0 THEN Cociente(ganancias, perdidas) ELSE Infinito

KpiNinguno ==
    [tipo |-> "ninguno", total |-> 0, unidades |-> 0, yield |-> Cero,
     aciertos |-> 0, fallos |-> 0, porcentaje |-> Cero,
     ganancias |-> 0, perdidas |-> 0, profit_factor |-> Cero]

\* Lines 109-127, the branch with a profit column; val is df_validadas.
KpiProfit(val, tieneResultado) ==
    LET total == Len(val)
        unidades == SumaProfit(val)
        aciertos == IF tieneResultado THEN CuentaIsin(val, Aciertos)
                    ELSE Len(Positivas(val))
        fallos == IF tieneResultado THEN CuentaIsin(val, Fallos)
                  ELSE Len(Negativas(val))
        ganancias == SumaProfit(Positivas(val))
        perdidas == -SumaProfit(Negativas(val))
    IN  [tipo |-> "profit", total |-> total, unidades |-> unidades,
         yield |-> IF total # 0 THEN Cociente(unidades, total) ELSE Cero,
         aciertos |-> aciertos, fallos |-> fallos,
         porcentaje |-> IF total # 0 THEN Cociente(aciertos * 100, total) ELSE Cero,
         ganancias |-> ganancias, perdidas |-> perdidas,
         profit_factor |-> ProfitFactor(ganancias, perdidas)]

\* Lines 138-145, the branch without a profit column; filt is df_filtrado.
KpiBasico(filt, tieneResultado) ==
    LET total == Len(filt)
        aciertos == IF tieneResultado THEN CuentaIsin(filt, Aciertos) ELSE 0
    IN  [KpiNinguno EXCEPT
            !.tipo = "basico", !.total = total, !.aciertos = aciertos,
            !.porcentaje = IF tieneResultado /\ total # 0
                           THEN Cociente(aciertos * 100, total) ELSE Cero]

\* Line 148: max() of an empty date column is NaT, and NaT.strftime raises.
UltimaActualizacionFalla(filt, hayFecha) == hayFecha /\ filt = <<>>

-----------------------------------------------------------------------------
(* Rollups, lines 154-201 *)

\* dt.to_period("M").dt.to_timestamp(): the first day of the month.
MesInicio(dia) == IF dia < 3 THEN -28 ELSE 3

\* dt.to_period("W") start_time: the Monday of the week.
SemanaInicio(dia) == dia - (dia % 7)

\* groupby sorts the group keys ascending.
RECURSIVE Ordenar(_)
Ordenar(S) ==
    IF S = {} THEN <<>>
    ELSE LET m == CHOOSE x \in S : \A y \in S : x <= y
         IN  <<m>> \o Ordenar(S \ {m})

ClavesMes(val) == Ordenar({ MesInicio(val[i].fecha.d) : i \in 1..Len(val) })

ClavesSemana(val) == Ordenar({ SemanaInicio(val[i].fecha.d) : i \in 1..Len(val) })

GrupoMes(val, k) ==
    LET Test(r) == MesInicio(r.fecha.d) = k
    IN  SelectSeq(val, Test)

GrupoSemana(val, k) ==
    LET Test(r) == SemanaInicio(r.fecha.d) = k
    IN  SelectSeq(val, Test)

\* Line 171.
FallosMes(predicciones, aciertos) == predicciones - aciertos

\* Lines 164-172 with a result column.
ResumenMensual(val) ==
    LET claves == ClavesMes(val)
        Renglon(k) ==
            LET g == GrupoMes(val, k)
                predicciones == Len(g)
                unidades == SumaProfit(g)
                aciertos == CuentaIsin(g, Aciertos)
            IN  [mes |-> k, predicciones |-> predicciones, unidades |-> unidades,
                 aciertos |-> aciertos,
                 fallos |-> FallosMes(predicciones, aciertos),
                 yield |-> Cociente(unidades * 100, predicciones)]
    IN  [i \in 1..Len(claves) |-> Renglon(claves[i])]

\* Lines 164-170 without a result column: both keys of the agg dict are the
\* profit column, the dict keeps one entry, and naming four columns raises.
ResumenMensualFalla(tieneResultado) == ~tieneResultado

\* Mutant: the accumulator is reset at every row.
CumSumReinicia(xs, acc) == [i \in 1..Len(xs) |-> acc + xs[i]]

\* Series.cumsum(): one accumulator run over the rows in order.
RECURSIVE CumSum(_, _)
CumSum(xs, acc) ==
    IF xs = <<>> THEN <<>>
    ELSE <<acc + Head(xs)>> \o CumSum(Tail(xs), acc + Head(xs))

\* Lines 197-201.
ResumenSemanal(val) ==
    LET claves == ClavesSemana(val)
        unidades == [i \in 1..Len(claves) |-> SumaProfit(GrupoSemana(val, claves[i]))]
        acumuladas == CumSum(unidades, 0)
    IN  [i \in 1..Len(claves) |->
            [semana |-> claves[i], unidades |-> unidades[i],
             unidades_acumuladas |-> acumuladas[i]]]

\* Lines 245-250: the same agg dict over the league groups.
AnalisisLigaFalla(tieneProfit, tieneResultado) == tieneProfit /\ ~tieneResultado

-----------------------------------------------------------------------------
(* The script *)

Init ==
    /\ fuente \in Fuentes
    /\ cache = <<>>
    /\ instantanea = fuente
    /\ estado = "inicio"
    /\ mensajes = <<>>
    /\ df = <<>>
    /\ fecha_col = FALSE
    /\ seleccion = SeleccionInicial
    /\ df_fecha = <<>>
    /\ df_filtros = <<>>
    /\ df_filtrado = <<>>
    /\ df_validadas = <<>>
    /\ kpi = KpiNinguno
    /\ resumen_mensual = <<>>
    /\ resumen_semanal = <<>>

\* The outputs of a run that ends before the filters.
SinResultados ==
    /\ df_fecha' = <<>>
    /\ df_filtros' = <<>>
    /\ df_filtrado' = <<>>
    /\ df_validadas' = <<>>
    /\ kpi' = KpiNinguno
    /\ resumen_mensual' = <<>>
    /\ resumen_semanal' = <<>>

\* One run of the script, lines 10-353, with the button pressed or not and
\* the sidebar widgets returning sel.  When the default of the date inputs
\* is NaT, st.date_input either raises or returns what the user set: both
\* outcomes are kept.
Run(pulsado, sel) ==
    \E res \in {CacheLookup(TrasBoton(cache, pulsado), fuente)} :
    /\ sel \in Selecciones(res.df, res.fecha_col)
    /\ \E falla52 \in IF res.df # <<>> /\ res.fecha_col /\ FechaPorDefectoNaT(res.df)
                      THEN BOOLEAN ELSE {FALSE} :
       \E f1 \in {IF res.fecha_col THEN FiltroFecha(res.df, sel) ELSE res.df} :
       \E f3 \in {FiltroLiga(FiltroEquipo(f1, sel), sel)} :
       \E f4 \in {IF res.tieneResultado THEN SinAnulados(f3) ELSE f3} :
       \E val \in {IF res.tieneProfit THEN DropnaProfit(f4) ELSE <<>>} :
       LET temporal == res.fecha_col /\ res.tieneProfit /\ Len(f4) > 0
           falla148 == ~res.tieneProfit /\ UltimaActualizacionFalla(f4, res.fecha_col)
           falla170 == ~falla148 /\ temporal /\ ResumenMensualFalla(res.tieneResultado)
           falla250 == /\ ~falla148 /\ ~falla170 /\ Len(f4) > 0
                       /\ AnalisisLigaFalla(res.tieneProfit, res.tieneResultado)
       IN  /\ cache' = <<res>>
           /\ instantanea' = IF pulsado \/ estado = "inicio" THEN fuente ELSE instantanea
           /\ df' = res.df
           /\ fecha_col' = res.fecha_col
           /\ seleccion' = sel
           /\ UNCHANGED fuente
           /\ IF res.df = <<>>
              THEN \* lines 38-40
                   /\ mensajes' = Append(res.mensajes, ErrorNoDatos)
                   /\ estado' = "detenido"
                   /\ SinResultados
              ELSE IF falla52
              THEN /\ mensajes' = res.mensajes
                   /\ estado' = "excepcion_fecha"
                   /\ SinResultados
              ELSE /\ mensajes' = res.mensajes
                   /\ df_fecha' = f1
                   /\ df_filtros' = f3
                   /\ df_filtrado' = f4
                   /\ df_validadas' = val
                   /\ kpi' = IF res.tieneProfit THEN KpiProfit(val, res.tieneResultado)
                             ELSE KpiBasico(f4, res.tieneResultado)
                   /\ resumen_mensual' = IF temporal /\ ~falla170
                                         THEN ResumenMensual(val) ELSE <<>>
                   /\ resumen_semanal' = IF temporal /\ ~falla170
                                         THEN ResumenSemanal(val) ELSE <<>>
                   /\ estado' = IF falla148 \/ falla170 \/ falla250
                                THEN "excepcion" ELSE "completo"

\* The spreadsheet is rewritten by the upstream pipeline or by hand.
CambiarFuente(s) ==
    /\ s # fuente
    /\ fuente' = s
    /\ UNCHANGED <<cache, instantanea, estado, mensajes, df, fecha_col, seleccion,
                   df_fecha, df_filtros, df_filtrado, df_validadas, kpi,
                   resumen_mensual, resumen_semanal>>

Selectores ==
    [desde : SelDias, hasta : SelDias,
     equipo : {"Todos", "A", "B"}, ligas : SUBSET {"L1", "L2"}]

Next == \E sel \in Selectores : Run(FALSE, sel)

\* Runs of the script over one spreadsheet.
Spec == Init /\ [][Next]_vars

\* The spreadsheets of the cache specification: unreadable, or a sheet with
\* all columns and at most one row.
FuentesCache ==
    { s \in Fuentes :
        ~s.ok \/ (s.tieneFecha /\ s.tieneProfit /\ s.tieneResultado /\ Len(s.filas) <= 1) }

InitCache == Init /\ fuente \in FuentesCache

NextCache ==
    \/ \E pulsado \in BOOLEAN, sel \in Selectores : Run(pulsado, sel)
    \/ \E s \in FuentesCache : CambiarFuente(s)

\* Runs of the script, with and without the refresh button, while the
\* spreadsheet changes underneath.
SpecCache == InitCache /\ [][NextCache]_vars

-----------------------------------------------------------------------------
(* Properties *)

\* The last run got past st.stop: the filters and the metrics were evaluated.
Evaluado == estado \in {"completo", "excepcion"}

\* The columns of the frame the last run worked on.
ConProfit == cache # <<>> /\ cache[1].tieneProfit

ConResultado == cache # <<>> /\ cache[1].tieneResultado

\* The rollups of lines 154-201 were built by the last run.
ConResumenes == estado = "completo" /\ fecha_col /\ ConProfit /\ df_filtrado # <<>>

\* C1: the profit factor is gains/losses when losses > 0, the infinity value
\* when losses = 0 and gains > 0, and a separate undefined value, which is not
\* the infinity value, when gains and losses are both 0.
C1_ProfitFactor ==
    (Evaluado /\ ConProfit) =>
        LET g == SumaProfit(Positivas(df_validadas))
            l == -SumaProfit(Negativas(df_validadas))
        IN  /\ l > 0 => kpi.profit_factor = Cociente(g, l)
            /\ (l = 0 /\ g > 0) => kpi.profit_factor = Infinito
            /\ (l = 0 /\ g = 0) => /\ kpi.profit_factor.tipo = "indefinido"
                                   /\ kpi.profit_factor # Infinito

\* C2: every record that enters the metrics and the rollups has status
\* "completed" and a present profit; a pending record never enters them.
C2_SoloCompletadas ==
    (Evaluado /\ ConProfit) =>
        \A i \in 1..Len(df_validadas) :
            /\ df_validadas[i].estado = "completed"
            /\ ~df_validadas[i].profit.nan

\* The tri-state hit of a record: "si", "no" or "desconocido".
Hit(r) ==
    IF r.resultado \in Aciertos THEN "si"
    ELSE IF r.resultado \in Fallos THEN "no" ELSE "desconocido"

CuentaHit(d, h) ==
    LET Test(r) == Hit(r) = h
    IN  Len(SelectSeq(d, Test))

\* C3: in the scalar metrics and in every monthly group, hits counts the
\* validated records whose hit is true and misses those whose hit is false;
\* a record whose hit is unknown is counted in neither.
C3_AciertosYFallos ==
    (Evaluado /\ ConProfit /\ ConResultado) =>
        /\ kpi.aciertos = CuentaHit(df_validadas, "si")
        /\ kpi.fallos = CuentaHit(df_validadas, "no")
        /\ \A i \in 1..Len(resumen_mensual) :
              LET g == GrupoMes(df_validadas, resumen_mensual[i].mes)
              IN  /\ resumen_mensual[i].aciertos = CuentaHit(g, "si")
                  /\ resumen_mensual[i].fallos = CuentaHit(g, "no")

\* The three sidebar predicates on one record, with the values of the last
\* run.  The date comparison is the one line 54 makes; what it means for the
\* bounds is the subject of C5.
CumpleFecha(r) ==
    fecha_col =>
        /\ r.fecha.kind = "ts"
        /\ seleccion.desde <= r.fecha.d
        /\ \/ r.fecha.d < seleccion.hasta
           \/ (r.fecha.d = seleccion.hasta /\ r.fecha.h = 0)

CumpleEquipo(r) ==
    seleccion.equipo # "Todos" =>
        (r.local = seleccion.equipo \/ r.visitante = seleccion.equipo)

CumpleLiga(r) == seleccion.ligas # {} => r.liga \in seleccion.ligas

CumpleTodos(r) == CumpleFecha(r) /\ CumpleEquipo(r) /\ CumpleLiga(r)

PorFecha(d) == IF fecha_col THEN FiltroFecha(d, seleccion) ELSE d

PorEquipo(d) == FiltroEquipo(d, seleccion)

PorLiga(d) == FiltroLiga(d, seleccion)

\* C4: the filtered set is exactly the records of df that satisfy every
\* active predicate, in their order, and it is the same for each of the six
\* orders in which the date, team and league filters can be applied.
C4_FiltrosConjuncion ==
    Evaluado =>
        /\ df_filtros = SelectSeq(df, CumpleTodos)
        /\ df_filtros = PorLiga(PorEquipo(PorFecha(df)))
        /\ df_filtros = PorEquipo(PorLiga(PorFecha(df)))
        /\ df_filtros = PorLiga(PorFecha(PorEquipo(df)))
        /\ df_filtros = PorFecha(PorLiga(PorEquipo(df)))
        /\ df_filtros = PorEquipo(PorFecha(PorLiga(df)))
        /\ df_filtros = PorFecha(PorEquipo(PorLiga(df)))

\* C4 witness: the three filters are active and drop some rows but not all.
C4_Testigo ==
    /\ estado = "completo" /\ fecha_col
    /\ seleccion.equipo # "Todos" /\ seleccion.ligas # {}
    /\ 0 < Len(df_filtros) /\ Len(df_filtros) < Len(df)

\* C5: with a date range active, a record is kept by the date filter if and
\* only if its date is present and its day lies between date_from and
\* date_to, both included, whatever its time of day.
C5_FechaInclusiva ==
    (Evaluado /\ fecha_col) =>
        \A i \in 1..Len(df) :
            (df[i] \in Rango(df_fecha)) <=>
                /\ df[i].fecha.kind = "ts"
                /\ seleccion.desde <= df[i].fecha.d
                /\ df[i].fecha.d <= seleccion.hasta

RECURSIVE SumaUnidades(_, _)
SumaUnidades(rs, n) ==
    IF n = 0 THEN 0 ELSE rs[n].unidades + SumaUnidades(rs, n - 1)

ConFecha(d) ==
    LET Test(r) == r.fecha.kind = "ts"
    IN  SelectSeq(d, Test)

\* C6: in the weekly rollup the weeks are ascending, each week's total is
\* the profit of its validated records, each cumulative value is the sum of
\* the weekly totals up to that week, and the last cumulative value is the
\* profit of all validated records that have a date.
C6_AcumuladoSemanal ==
    ConResumenes =>
        LET n == Len(resumen_semanal)
        IN  /\ \A i \in 1..(n - 1) :
                  resumen_semanal[i].semana < resumen_semanal[i + 1].semana
            /\ { resumen_semanal[i].semana : i \in 1..n } =
               { SemanaInicio(r.fecha.d) : r \in Rango(ConFecha(df_validadas)) }
            /\ \A i \in 1..n :
                  /\ resumen_semanal[i].unidades =
                        SumaProfit(GrupoSemana(df_validadas, resumen_semanal[i].semana))
                  /\ resumen_semanal[i].unidades_acumuladas =
                        SumaUnidades(resumen_semanal, i)
            /\ n > 0 => resumen_semanal[n].unidades_acumuladas =
                            SumaProfit(ConFecha(df_validadas))

\* C6 witness: two weeks or more, the first with a total other than zero.
C6_Testigo ==
    /\ ConResumenes
    /\ Len(resumen_semanal) >= 2
    /\ resumen_semanal[1].unidades # 0
    /\ resumen_semanal[2].unidades_acumuladas # resumen_semanal[2].unidades

\* C7: when the spreadsheet is readable, every row is loaded with its
\* values, and a date cell that cannot be parsed becomes the absent date.
C7_CeldaIlegible ==
    (estado # "inicio" /\ fuente.ok) =>
        /\ Len(df) = Len(fuente.filas)
        /\ \A i \in 1..Len(df) :
              /\ df[i].profit = fuente.filas[i].profit
              /\ (fecha_col /\ fuente.filas[i].fecha.kind = "texto")
                    => df[i].fecha = NaT

\* C8: over a non-empty frame, a run that is left with no validated record
\* completes without raising and reports count 0, profit 0, yield 0 and
\* hit rate 0.
C8_SinValidadas ==
    (/\ estado # "inicio" /\ df # <<>>
     /\ IF ConProfit THEN df_validadas = <<>> ELSE df_filtrado = <<>>) =>
        /\ estado = "completo"
        /\ kpi.total = 0 /\ kpi.unidades = 0
        /\ kpi.yield = Cero /\ kpi.porcentaje = Cero

\* The load of the spreadsheet fails: the file cannot be read, or
\* cargar_datos raises inside its try block.
FalloDeCarga ==
    ~fuente.ok \/ (fuente.tieneFecha /\ ToDatetimeFalla(fuente.filas))

====
